---- MODULE Spec2Model ----
(***************************************************************************)
(* Model of package goflagconfig (src/config.go): typed config values, the *)
(* ConfigSet registry, and the "key = value # comment" file codec.         *)
(*                                                                         *)
(* A Go string is a sequence of one-character strings, so that the text    *)
(* operations of the code (index, split, trim, parse, format, compare) are *)
(* computed and not assumed.  Characters range over printable ASCII        *)
(* without 'p', 'P' and '_' (hexadecimal floats and digit separators are   *)
(* the only syntax of strconv that those three characters would add).      *)
(***************************************************************************)
EXTENDS Integers, Sequences, FiniteSets, TLC

(***************************************************************************)
(* Characters and strings                                                  *)
(***************************************************************************)

\* Printable ASCII in code order; Ascii[i] has byte value 31 + i (byte 96 is
\* written out: no string of the model holds it).
Ascii ==
  << " ", "!", "\"", "#", "$", "%", "&", "'", "(", ")", "*", "+", ",", "-", ".", "/",
     "0", "1", "2", "3", "4", "5", "6", "7", "8", "9", ":", ";", "<", "=", ">", "?",
     "@", "A", "B", "C", "D", "E", "F", "G", "H", "I", "J", "K", "L", "M", "N", "O",
     "P", "Q", "R", "S", "T", "U", "V", "W", "X", "Y", "Z", "[", "\\", "]", "^", "_",
     "backtick", "a", "b", "c", "d", "e", "f", "g", "h", "i", "j", "k", "l", "m", "n", "o",
     "p", "q", "r", "s", "t", "u", "v", "w", "x", "y", "z", "{", "|", "}", "~" >>

\* Byte value of a character (the tab character and bytes above '~' get the
\* values the code's comparisons need: tab sorts below every printable one).
Code(c) ==
  IF \E i \in 1..Len(Ascii) : Ascii[i] = c
    THEN 31 + (CHOOSE i \in 1..Len(Ascii) : Ascii[i] = c)
    ELSE IF c = "\t" THEN 9 ELSE 181

Digits == <<"0", "1", "2", "3", "4", "5", "6", "7", "8", "9">>

IsDigit(c) == \E i \in 1..10 : Digits[i] = c

DigitVal(c) == (CHOOSE i \in 1..10 : Digits[i] = c) - 1

\* strings.ToLower / lower(c) of strconv on one ASCII character.
Lower(c) ==
  IF Code(c) >= 65 /\ Code(c) <= 90 THEN Ascii[Code(c) + 32 - 31] ELSE c

LowerStr(s) == [i \in 1..Len(s) |-> Lower(s[i])]

\* s[from:] and s[:to] of Go (0-based, half open), on 1-based sequences.
Drop(s, k) == SubSeq(s, k + 1, Len(s))

Take(s, k) == SubSeq(s, 1, k)

\* a < b for Go strings: bytewise lexicographic order.
RECURSIVE StrLess(_, _)
StrLess(a, b) ==
  IF b = <<>> THEN FALSE
  ELSE IF a = <<>> THEN TRUE
  ELSE IF Code(a[1]) # Code(b[1]) THEN Code(a[1]) < Code(b[1])
  ELSE StrLess(Tail(a), Tail(b))

\* strings.Index(s, c) for a one-character c: 0-based position or -1.
IndexByte(s, c) ==
  IF \E i \in 1..Len(s) : s[i] = c
    THEN (CHOOSE i \in 1..Len(s) : s[i] = c /\ \A j \in 1..(i - 1) : s[j] # c) - 1
    ELSE -1

\* strings.Split(s, sep) for a one-character sep: the pieces between the
\* separators, n+1 pieces for n separators.
RECURSIVE Split(_, _)
Split(s, sep) ==
  LET i == IndexByte(s, sep)
  IN  IF i = -1 THEN <<s>>
      ELSE <<Take(s, i)>> \o Split(Drop(s, i + 1), sep)

\* unicode.IsSpace on the characters of the model.
IsSpace(c) == c \in {" ", "\t", "\r", "\n"}

\* strings.TrimLeft / TrimRight / Trim over a set of characters.
RECURSIVE TrimLeftSet(_, _)
TrimLeftSet(s, cut) ==
  IF s # <<>> /\ s[1] \in cut THEN TrimLeftSet(Tail(s), cut) ELSE s

RECURSIVE TrimRightSet(_, _)
TrimRightSet(s, cut) ==
  IF s # <<>> /\ s[Len(s)] \in cut THEN TrimRightSet(Take(s, Len(s) - 1), cut) ELSE s

TrimSet(s, cut) == TrimRightSet(TrimLeftSet(s, cut), cut)

\* strings.TrimSpace(s).
TrimSpace(s) == TrimSet(s, {" ", "\t", "\r", "\n"})

\* A trim that takes one '"' from the beginning and one from the end of a
\* text that has both.
TrimQuotePair(s) ==
  IF Len(s) >= 2 /\ s[1] = "\"" /\ s[Len(s)] = "\"" THEN SubSeq(s, 2, Len(s) - 1) ELSE s

\* strings.Trim(s, `"`).
TrimQuotes(s) == TrimSet(s, {"\""})

(***************************************************************************)
(* Typed values: the content of a storage cell, one record shape per kind. *)
(*   bool                   [kind, b]                                      *)
(*   int int64 uint uint64  [kind, n]                                      *)
(*   string                 [kind, s]                                      *)
(*   float64                [kind, cls, neg, m, e]: (-1)^neg * m * 10^e,   *)
(*                          m without trailing zeros; cls is "fin", "inf"  *)
(*                          or "nan".  A decimal literal of at most 9      *)
(*                          digits is exactly the shortest decimal of the  *)
(*                          float64 nearest to it, so m and e name it.     *)
(*   duration               [kind, neg, sec, ns]: whole seconds and the    *)
(*                          nanoseconds below one second.                  *)
(* Numerals are at most 9 digits long in every input of the model, far     *)
(* from the 64-bit range checks of strconv and time.                       *)
(***************************************************************************)

Kinds == {"bool", "int", "int64", "uint", "uint64", "float64", "string", "duration"}

BoolOf(b) == [kind |-> "bool", b |-> b]

NumOf(kind, n) == [kind |-> kind, n |-> n]

StrOf(s) == [kind |-> "string", s |-> s]

FloatOf(cls, neg, m, e) == [kind |-> "float64", cls |-> cls, neg |-> neg, m |-> m, e |-> e]

DurOf(neg, sec, ns) == [kind |-> "duration", neg |-> neg, sec |-> sec, ns |-> ns]

\* The zero value of each Go type: what new(T) holds, and what the parsers of
\* strconv and time return beside a syntax error.
Zero(kind) ==
  CASE kind = "bool" -> BoolOf(FALSE)
    [] kind \in {"int", "int64", "uint", "uint64"} -> NumOf(kind, 0)
    [] kind = "string" -> StrOf(<<>>)
    [] kind = "float64" -> FloatOf("fin", FALSE, 0, 0)
    [] kind = "duration" -> DurOf(FALSE, 0, 0)

RECURSIVE Pow10(_)
Pow10(k) == IF k = 0 THEN 1 ELSE 10 * Pow10(k - 1)

\* Decimal digits of a natural number (strconv's formatBits, base 10).
RECURSIVE NatStr(_)
NatStr(n) == IF n < 10 THEN <<Digits[n + 1]>> ELSE NatStr(n \div 10) \o <<Digits[(n % 10) + 1]>>

IntStr(n) == IF n < 0 THEN <<"-">> \o NatStr(-n) ELSE NatStr(n)

\* Value of a run of decimal digits.
RECURSIVE DecVal(_)
DecVal(ds) == IF ds = <<>> THEN 0 ELSE 10 * DecVal(Take(ds, Len(ds) - 1)) + DigitVal(ds[Len(ds)])

\* Length of the longest prefix of s made of decimal digits.
RECURSIVE DigitRun(_)
DigitRun(s) == IF s # <<>> /\ IsDigit(s[1]) THEN 1 + DigitRun(Tail(s)) ELSE 0

(***************************************************************************)
(* strconv.ParseBool                                                       *)
(***************************************************************************)

TrueTexts ==
  { <<"1">>, <<"t">>, <<"T">>, <<"T", "R", "U", "E">>, <<"t", "r", "u", "e">>,
    <<"T", "r", "u", "e">> }

FalseTexts ==
  { <<"0">>, <<"f">>, <<"F">>, <<"F", "A", "L", "S", "E">>, <<"f", "a", "l", "s", "e">>,
    <<"F", "a", "l", "s", "e">> }

ParseBool(s) ==
  IF s \in TrueTexts THEN [v |-> BoolOf(TRUE), err |-> "nil"]
  ELSE IF s \in FalseTexts THEN [v |-> BoolOf(FALSE), err |-> "nil"]
  ELSE [v |-> BoolOf(FALSE), err |-> "syntax"]

FormatBool(b) == IF b THEN <<"t", "r", "u", "e">> ELSE <<"f", "a", "l", "s", "e">>

(***************************************************************************)
(* strconv.ParseUint(s, 0, 64) and strconv.ParseInt(s, 0, 64)              *)
(***************************************************************************)

\* Value of one digit character in a base up to 36, or 99 for a character
\* that is no digit in any base.
DigitIn(c) ==
  IF IsDigit(c) THEN DigitVal(c)
  ELSE IF Code(Lower(c)) >= 97 /\ Code(Lower(c)) <= 122 THEN Code(Lower(c)) - 97 + 10
  ELSE 99

\* The digit loop of ParseUint: n is the value so far.
RECURSIVE UintDigits(_, _, _)
UintDigits(s, base, n) ==
  IF s = <<>> THEN [v |-> n, err |-> "nil"]
  ELSE IF DigitIn(s[1]) >= base THEN [v |-> 0, err |-> "syntax"]
  ELSE UintDigits(Tail(s), base, n * base + DigitIn(s[1]))

\* Base 0: "0b", "0o", "0x" (with at least one more character) and a leading
\* "0" choose the base; the result is the unsigned value, 0 on a syntax error.
ParseUintRaw(s) ==
  IF s = <<>> THEN [v |-> 0, err |-> "syntax"]
  ELSE IF s[1] = "0" THEN
    IF Len(s) >= 3 /\ Lower(s[2]) = "b" THEN UintDigits(Drop(s, 2), 2, 0)
    ELSE IF Len(s) >= 3 /\ Lower(s[2]) = "o" THEN UintDigits(Drop(s, 2), 8, 0)
    ELSE IF Len(s) >= 3 /\ Lower(s[2]) = "x" THEN UintDigits(Drop(s, 2), 16, 0)
    ELSE UintDigits(Drop(s, 1), 8, 0)
  ELSE UintDigits(s, 10, 0)

\* The signed or unsigned number of the kind for what ParseUint found.
NumResult(kind, neg, r) ==
  IF r.err # "nil" THEN [v |-> NumOf(kind, 0), err |-> r.err]
  ELSE [v |-> NumOf(kind, IF neg THEN -r.v ELSE r.v), err |-> "nil"]

ParseUint(s, kind) == NumResult(kind, FALSE, ParseUintRaw(s))

ParseInt(s, kind) ==
  IF s = <<>> THEN [v |-> NumOf(kind, 0), err |-> "syntax"]
  ELSE NumResult(kind, s[1] = "-", ParseUintRaw(IF s[1] \in {"+", "-"} THEN Tail(s) ELSE s))


(***************************************************************************)
(* strconv.ParseFloat(s, 64) and strconv.FormatFloat(f, 'g', -1, 64)       *)
(***************************************************************************)

\* m * 10^e with the trailing zeros of m moved into e; zero has e = 0.
RECURSIVE Normal(_, _, _)
Normal(neg, m, e) ==
  IF m = 0 THEN FloatOf("fin", neg, 0, 0)
  ELSE IF m % 10 = 0 THEN Normal(neg, m \div 10, e + 1)
  ELSE FloatOf("fin", neg, m, e)

InfTexts == { <<"i", "n", "f">>, <<"i", "n", "f", "i", "n", "i", "t", "y">> }

\* readFloat on the text after the sign: digits with at most one '.', at
\* least one digit, then an optional exponent 'e' [sign] digits; the whole
\* text must be consumed.  The result is [ok, m, e].
ReadFloat(s) ==
  LET ni     == DigitRun(s)
      aft    == Drop(s, ni)
      dot    == aft # <<>> /\ aft[1] = "."
      nf     == IF dot THEN DigitRun(Tail(aft)) ELSE 0
      mant   == Take(s, ni) \o (IF dot THEN Take(Tail(aft), nf) ELSE <<>>)
      rest   == IF dot THEN Drop(aft, 1 + nf) ELSE aft
      hasExp == rest # <<>> /\ Lower(rest[1]) = "e"
      ex     == IF hasExp THEN Tail(rest) ELSE <<>>
      esign  == ex # <<>> /\ ex[1] \in {"+", "-"}
      edig   == IF esign THEN Tail(ex) ELSE ex
      ne     == DigitRun(edig)
      eval   == IF ex # <<>> /\ ex[1] = "-" THEN -DecVal(Take(edig, ne)) ELSE DecVal(Take(edig, ne))
  IN  IF ni + nf = 0 THEN [ok |-> FALSE, m |-> 0, e |-> 0]
      ELSE IF ~hasExp THEN [ok |-> rest = <<>>, m |-> DecVal(mant), e |-> -nf]
      ELSE [ok |-> ne > 0 /\ ne = Len(edig), m |-> DecVal(mant), e |-> eval - nf]

\* The sign of a numeral and the text after it.
IsNeg(s) == s # <<>> /\ s[1] = "-"

Unsigned(s) == IF s # <<>> /\ s[1] \in {"+", "-"} THEN Tail(s) ELSE s

\* The float64 for what readFloat found, or the syntax error.
FloatResult(neg, r) ==
  IF r.ok THEN [v |-> Normal(neg, r.m, r.e), err |-> "nil"]
  ELSE [v |-> FloatOf("fin", FALSE, 0, 0), err |-> "syntax"]

ParseFloat(s) ==
  IF LowerStr(Unsigned(s)) \in InfTexts THEN [v |-> FloatOf("inf", IsNeg(s), 0, 0), err |-> "nil"]
  ELSE IF LowerStr(s) = <<"n", "a", "n">> THEN [v |-> FloatOf("nan", FALSE, 0, 0), err |-> "nil"]
  ELSE FloatResult(IsNeg(s), ReadFloat(Unsigned(s)))

RECURSIVE Zeros(_)
Zeros(k) == IF k <= 0 THEN <<>> ELSE <<"0">> \o Zeros(k - 1)

\* %e: d.ddde+XX with at least two exponent digits.
FmtE(ds, exp) ==
  <<ds[1]>> \o (IF Len(ds) > 1 THEN <<".">> \o Tail(ds) ELSE <<>>) \o <<"e">>
    \o (IF exp < 0 THEN <<"-">> ELSE <<"+">>)
    \o (LET a == IF exp < 0 THEN -exp ELSE exp
        IN  IF a < 10 THEN <<"0">> \o NatStr(a) ELSE NatStr(a))

\* %f with just the digits the value has: dp is the place of the point.
FmtF(ds, dp) ==
  (IF dp <= 0 THEN <<"0">>
   ELSE IF dp >= Len(ds) THEN ds \o Zeros(dp - Len(ds)) ELSE Take(ds, dp))
    \o (IF Len(ds) > dp
          THEN <<".">> \o Zeros(-dp) \o (IF dp > 0 THEN Drop(ds, dp) ELSE ds)
          ELSE <<>>)

\* 'g' with the shortest digits: %e when the exponent is below -4 or at
\* least 6, %f otherwise.
FormatFloat(f) ==
  IF f.cls = "nan" THEN <<"N", "a", "N">>
  ELSE IF f.cls = "inf" THEN (IF f.neg THEN <<"-">> ELSE <<"+">>) \o <<"I", "n", "f">>
  ELSE LET ds  == NatStr(f.m)
           dp  == IF f.m = 0 THEN 1 ELSE Len(ds) + f.e
           exp == dp - 1
       IN  (IF f.neg THEN <<"-">> ELSE <<>>)
             \o (IF exp < -4 \/ exp >= 6 THEN FmtE(ds, exp) ELSE FmtF(ds, dp))

(***************************************************************************)
(* time.ParseDuration and time.Duration.String                             *)
(***************************************************************************)

Billion == 1000000000

\* unitMap of package time: nanoseconds per unit for the units below one
\* second, seconds per unit for the others.
SubUnits ==
  { <<"n", "s">>, <<"u", "s">>, <<"µ", "s">>, <<"μ", "s">>, <<"m", "s">> }

SubUnitNs(u) ==
  IF u = <<"n", "s">> THEN 1 ELSE IF u = <<"m", "s">> THEN 1000000 ELSE 1000

SecUnits == { <<"s">>, <<"m">>, <<"h">> }

UnitSecs(u) == IF u = <<"s">> THEN 1 ELSE IF u = <<"m">> THEN 60 ELSE 3600

\* Length of the unit: the characters up to the next digit or '.'.
RECURSIVE UnitRun(_)
UnitRun(s) ==
  IF s # <<>> /\ ~IsDigit(s[1]) /\ s[1] # "." THEN 1 + UnitRun(Tail(s)) ELSE 0

\* The loop of ParseDuration over the magnitude-unit pairs: total is the
\* number of nanoseconds so far, kept as [sec, ns].  The result is
\* [ok, sec, ns].
RECURSIVE DurPairs(_, _, _)
DurPairs(s, sec, ns) ==
  IF s = <<>> THEN [ok |-> TRUE, sec |-> sec, ns |-> ns]
  ELSE
    LET ni   == DigitRun(s)
        aft  == Drop(s, ni)
        dot  == aft # <<>> /\ aft[1] = "."
        nf   == IF dot THEN DigitRun(Tail(aft)) ELSE 0
        v    == DecVal(Take(s, ni))
        f    == IF dot THEN DecVal(Take(Tail(aft), nf)) ELSE 0
        rest == IF dot THEN Drop(aft, 1 + nf) ELSE aft
        nu   == UnitRun(rest)
        u    == Take(rest, nu)
        \* v units and f / 10^nf units, in nanoseconds, as [sec, ns]
        addS == IF u \in SecUnits
                  THEN v * UnitSecs(u) + ((f * UnitSecs(u)) \div Pow10(nf))
                  ELSE v \div (Billion \div SubUnitNs(u))
        addN == IF u \in SecUnits
                  THEN ((f * UnitSecs(u)) % Pow10(nf)) * (Billion \div Pow10(nf))
                  ELSE (v % (Billion \div SubUnitNs(u))) * SubUnitNs(u)
                         + ((f * SubUnitNs(u)) \div Pow10(nf))
        tot  == ns + addN
    IN  IF ~(s[1] = "." \/ IsDigit(s[1])) THEN [ok |-> FALSE, sec |-> 0, ns |-> 0]
        ELSE IF ni + nf = 0 THEN [ok |-> FALSE, sec |-> 0, ns |-> 0]
        ELSE IF nu = 0 THEN [ok |-> FALSE, sec |-> 0, ns |-> 0]
        ELSE IF u \notin SecUnits \cup SubUnits THEN [ok |-> FALSE, sec |-> 0, ns |-> 0]
        ELSE DurPairs(Drop(rest, nu), sec + addS + (tot \div Billion), tot % Billion)

\* The Duration for what the loop found, or the error.
DurResult(neg, r) ==
  IF r.ok THEN [v |-> DurOf(neg /\ (r.sec # 0 \/ r.ns # 0), r.sec, r.ns), err |-> "nil"]
  ELSE [v |-> DurOf(FALSE, 0, 0), err |-> "syntax"]

ParseDuration(s) ==
  IF Unsigned(s) = <<"0">> THEN [v |-> DurOf(FALSE, 0, 0), err |-> "nil"]
  ELSE IF Unsigned(s) = <<>> THEN [v |-> DurOf(FALSE, 0, 0), err |-> "syntax"]
  ELSE DurResult(IsNeg(s), DurPairs(Unsigned(s), 0, 0))

\* fmtFrac: the fraction v / 10^prec without trailing zeros, and without
\* the point when it is zero.
RECURSIVE FmtFrac(_, _)
FmtFrac(v, prec) ==
  IF v = 0 \/ prec = 0 THEN <<>>
  ELSE IF v % 10 = 0 THEN FmtFrac(v \div 10, prec - 1)
  ELSE <<".">> \o Zeros(prec - Len(NatStr(v))) \o NatStr(v)

\* A String that prints all the minutes of the duration after its hours.
DurationStringAllMinutes(d) ==
  (IF d.neg THEN <<"-">> ELSE <<>>) \o
  ( IF d.sec = 0 THEN
      IF d.ns = 0 THEN <<"0", "s">>
      ELSE IF d.ns < 1000 THEN NatStr(d.ns) \o <<"n", "s">>
      ELSE IF d.ns < 1000000
        THEN NatStr(d.ns \div 1000) \o FmtFrac(d.ns % 1000, 3) \o <<"µ", "s">>
      ELSE NatStr(d.ns \div 1000000) \o FmtFrac(d.ns % 1000000, 6) \o <<"m", "s">>
    ELSE
      (IF d.sec >= 3600 THEN NatStr(d.sec \div 3600) \o <<"h">> ELSE <<>>)
        \o (IF d.sec >= 60 THEN NatStr(d.sec \div 60) \o <<"m">> ELSE <<>>)
        \o NatStr(d.sec % 60) \o FmtFrac(d.ns, 9) \o <<"s">> )

DurationString(d) ==
  (IF d.neg THEN <<"-">> ELSE <<>>) \o
  ( IF d.sec = 0 THEN
      IF d.ns = 0 THEN <<"0", "s">>
      ELSE IF d.ns < 1000 THEN NatStr(d.ns) \o <<"n", "s">>
      ELSE IF d.ns < 1000000
        THEN NatStr(d.ns \div 1000) \o FmtFrac(d.ns % 1000, 3) \o <<"µ", "s">>
      ELSE NatStr(d.ns \div 1000000) \o FmtFrac(d.ns % 1000000, 6) \o <<"m", "s">>
    ELSE
      (IF d.sec >= 3600 THEN NatStr(d.sec \div 3600) \o <<"h">> ELSE <<>>)
        \o (IF d.sec >= 60 THEN NatStr((d.sec \div 60) % 60) \o <<"m">> ELSE <<>>)
        \o NatStr(d.sec % 60) \o FmtFrac(d.ns, 9) \o <<"s">> )


(***************************************************************************)
(* The Value interface over a storage cell.  A Value is [kind, cell]: the  *)
(* pointer returned by newBoolValue ... newDurationValue, which is the     *)
(* caller's pointer p converted, not a copy of what it points to.          *)
(***************************************************************************)

\* The parser each Set method calls.
Parse(kind, s) ==
  CASE kind = "bool" -> ParseBool(s)
    [] kind \in {"int", "int64"} -> ParseInt(s, kind)
    [] kind \in {"uint", "uint64"} -> ParseUint(s, kind)
    [] kind = "float64" -> ParseFloat(s)
    [] kind = "string" -> [v |-> StrOf(s), err |-> "nil"]
    [] kind = "duration" -> ParseDuration(s)

\* The String method of each value type, on the content of its cell.
Render(v) ==
  CASE v.kind = "bool" -> FormatBool(v.b)
    [] v.kind \in {"int", "int64", "uint", "uint64"} -> IntStr(v.n)
    [] v.kind = "float64" -> FormatFloat(v)
    [] v.kind = "string" -> v.s
    [] v.kind = "duration" -> DurationString(v)

\* A newXxxValue that sets *p and returns a pointer to a copy of val.
newValueCopy(cells, val, p) ==
  [ cells |-> Append(IF p > Len(cells) THEN Append(cells, val) ELSE [cells EXCEPT ![p] = val],
                     val),
    value |-> [kind |-> val.kind, cell |-> (IF p > Len(cells) THEN p ELSE Len(cells)) + 1] ]

\* newBoolValue(val, p) ... newDurationValue(val, p): *p = val, and the
\* Value is p itself.  p = Len(cells) + 1 is a variable not seen before.
newValue(cells, val, p) ==
  [ cells |-> IF p > Len(cells) THEN Append(cells, val) ELSE [cells EXCEPT ![p] = val],
    value |-> [kind |-> val.kind, cell |-> p] ]

\* (*xxxValue).Set(s): the parsed value is stored before the error is
\* looked at, so a text that does not parse stores what the parser
\* returned beside the error.
Store(cells, value, r) == [cells |-> [cells EXCEPT ![value.cell] = r.v], err |-> r.err]

ValueSet(cells, value, s) == Store(cells, value, Parse(value.kind, s))

\* (*xxxValue).Get()
ValueGet(cells, value) == cells[value.cell]

\* (*xxxValue).String()
ValueString(cells, value) == Render(cells[value.cell])

(***************************************************************************)
(* The heap and the registries.  st = [sets, configs, cells, held]:        *)
(*   sets     the ConfigSet structs; sets[1] is the package's              *)
(*            Configuration.  formal and actual map a name to a *Config,   *)
(*            an index into configs (a nil map reads as the empty map).    *)
(*   configs  the Config structs ever stored in a formal map.              *)
(*   cells    the storage cells the values point to.                       *)
(*   held     for each Config, what its definer was called with or         *)
(*            returned: the caller's pointer p and the default value.      *)
(***************************************************************************)

EmptyMap == <<>>

\* NewConfigSet(filename)
NewSet(filename) == [filename |-> filename, formal |-> EmptyMap, actual |-> EmptyMap]

\* The package-level variable Configuration.
Configuration == 1

\* Var without the check for a name that is defined: the new Config
\* replaces the old one.
VarOverwrite(st, f, value, name, usage) ==
  [st |-> [st EXCEPT !.configs = Append(@, [Name |-> name, Usage |-> usage, Value |-> value,
                                            DefValue |-> ValueString(st.cells, value)]),
                     !.sets[f].formal = (name :> (Len(st.configs) + 1)) @@ @],
   ret |-> "ok"]

\* (*ConfigSet).Var(value, name, usage): panics on a name that is defined,
\* otherwise stores a new Config whose DefValue is the value's text now.
Var(st, f, value, name, usage) ==
  LET config == [Name |-> name, Usage |-> usage, Value |-> value,
                 DefValue |-> ValueString(st.cells, value)]
  IN  IF name \in DOMAIN st.sets[f].formal
        THEN [st |-> st, ret |-> "panic"]
        ELSE [st |-> [st EXCEPT !.configs = Append(@, config),
                                !.sets[f].formal = @ @@ (name :> (Len(st.configs) + 1))],
              ret |-> "ok"]

\* (*ConfigSet).BoolVar(p, name, value, usage) ... DurationVar: the kind is
\* the kind of value.  A variable first seen in a call that panics is not
\* kept: nothing of the registry refers to it.
Defined(st, p, value, r) ==
  IF r.ret = "panic"
    THEN [st |-> IF p > Len(st.cells) THEN st ELSE r.st, ret |-> "panic", p |-> p]
    ELSE [st |-> [r.st EXCEPT !.held = Append(@, [p |-> p, value |-> value])],
          ret |-> "ok", p |-> p]

VarOf(st, f, nv, name, usage) ==
  Var([st EXCEPT !.cells = nv.cells], f, nv.value, name, usage)

XxxVar(st, f, p, name, value, usage) ==
  Defined(st, p, value, VarOf(st, f, newValue(st.cells, value, p), name, usage))

\* (*ConfigSet).Bool(name, value, usage) ... Duration: p := new(T), then
\* the XxxVar of the kind; p is returned.
Xxx(st, f, name, value, usage) == XxxVar(st, f, Len(st.cells) + 1, name, value, usage)

\* (*ConfigSet).Lookup(name): the *Config, 0 for nil.
Lookup(st, f, name) ==
  IF name \in DOMAIN st.sets[f].formal THEN st.sets[f].formal[name] ELSE 0

\* (*ConfigSet).Set(name, value)
\* The end of Set, after config.Value.Set(value) has returned r.
SetDone(st, f, name, config, r) ==
  IF r.err # "nil"
    THEN [st |-> [st EXCEPT !.cells = r.cells], err |-> r.err]
    ELSE [st |-> [st EXCEPT !.cells = r.cells,
                            !.sets[f].actual =
                               [n \in (DOMAIN @) \cup {name} |->
                                  IF n = name THEN config ELSE @[n]]],
          err |-> "nil"]

\* Set as in package flag: a name that is not defined is an error.
SetNoSuch(st, f, name, value) ==
  IF name \notin DOMAIN st.sets[f].formal
    THEN [st |-> st, err |-> "no such config"]
    ELSE SetDone(st, f, name, st.sets[f].formal[name],
                 ValueSet(st.cells, st.configs[st.sets[f].formal[name]].Value, value))

\* Set with f.actual[value] = config for f.actual[name] = config.
SetWrongKey(st, f, name, value) ==
  IF name \notin DOMAIN st.sets[f].formal
    THEN [st |-> Xxx(st, f, name, StrOf(value), <<>>).st, err |-> "nil"]
    ELSE SetDone(st, f, value, st.sets[f].formal[name],
                 ValueSet(st.cells, st.configs[st.sets[f].formal[name]].Value, value))

Set(st, f, name, value) ==
  IF name \notin DOMAIN st.sets[f].formal
    THEN [st |-> Xxx(st, f, name, StrOf(value), <<>>).st, err |-> "nil"]
    ELSE SetDone(st, f, name, st.sets[f].formal[name],
                 ValueSet(st.cells, st.configs[st.sets[f].formal[name]].Value, value))

\* (*ConfigSet).NConfig()
NConfig(st, f) == Cardinality(DOMAIN st.sets[f].actual)


(***************************************************************************)
(* Ordered traversal                                                       *)
(***************************************************************************)

\* sort.StringSlice.Sort on a short slice: insertion sort, an element moves
\* left while it is less than its left neighbour.
RECURSIVE Insert(_, _)
Insert(sorted, x) ==
  IF sorted # <<>> /\ StrLess(x, sorted[Len(sorted)])
    THEN Append(Insert(Take(sorted, Len(sorted) - 1), x), sorted[Len(sorted)])
    ELSE Append(sorted, x)

RECURSIVE SortStrings(_)
SortStrings(list) ==
  IF list = <<>> THEN <<>>
  ELSE Insert(SortStrings(Take(list, Len(list) - 1)), list[Len(list)])

\* The orders in which a range over the map m may yield its keys.
Orders(m) ==
  { o \in [1..Cardinality(DOMAIN m) -> DOMAIN m] :
      \A i, j \in DOMAIN o : i # j => o[i] # o[j] }

\* sortConfigs without list.Sort(): the map's iteration order.
sortConfigsUnsorted(configs, m, order) == [i \in DOMAIN order |-> m[order[i]]]

\* sortConfigs(configs): the Name fields in the map's iteration order, sorted,
\* then looked up in the map again (0 for a name that is no key).
sortConfigs(configs, m, order) ==
  LET list   == [i \in DOMAIN order |-> configs[m[order[i]]].Name]
      sorted == SortStrings(list)
  IN  [i \in DOMAIN sorted |-> IF sorted[i] \in DOMAIN m THEN m[sorted[i]] ELSE 0]

\* (*ConfigSet).VisitAll(fn): the *Config values fn is called with, in order.
VisitAll(st, f, order) == sortConfigs(st.configs, st.sets[f].formal, order)

\* (*ConfigSet).Visit(fn)
Visit(st, f, order) == sortConfigs(st.configs, st.sets[f].actual, order)

\* The package-level VisitAll(fn) is Configuration.VisitAll(fn).
PkgVisitAll(st, order) == VisitAll(st, Configuration, order)

(***************************************************************************)
(* The file codec.  A file is the sequence of its characters.              *)
(***************************************************************************)

RECURSIVE Concat(_)
Concat(ss) == IF ss = <<>> THEN <<>> ELSE ss[1] \o Concat(Tail(ss))

\* The visitor of Save with f.DefValue for f.Value.String().
SaveLineDefValue(st, c) ==
  st.configs[c].Name \o <<"=">> \o st.configs[c].DefValue
    \o <<" ", "#", " ">> \o st.configs[c].Usage \o <<"\n">>

\* The visitor of Save: fmt.Fprintf(out, "%s=%s # %s\n", ...).
SaveLine(st, c) ==
  st.configs[c].Name \o <<"=">> \o ValueString(st.cells, st.configs[c].Value)
    \o <<" ", "#", " ">> \o st.configs[c].Usage \o <<"\n">>

\* (*ConfigSet).Save(): nothing without a file name or when os.Create
\* fails; otherwise the file is truncated and the visitor writes a line for
\* each Config that the package-level VisitAll visits.
SaveText(st, visited) == Concat([i \in DOMAIN visited |-> SaveLine(st, visited[i])])

WriteFile(files, name, text) ==
  [p \in (DOMAIN files) \cup {name} |-> IF p = name THEN text ELSE files[p]]

Save(st, files, f, created, order) ==
  IF st.sets[f].filename = "" \/ ~created THEN files
  ELSE WriteFile(files, st.sets[f].filename, SaveText(st, PkgVisitAll(st, order)))

\* The visitor of the Print method: fmt.Printf("%-20s = %s # %s\n", ...), the name
\* padded on the right to 20 characters.
RECURSIVE Spaces(_)
Spaces(k) == IF k <= 0 THEN <<>> ELSE <<" ">> \o Spaces(k - 1)

PadWidth == 20

PrintLine(st, c) ==
  st.configs[c].Name \o Spaces(PadWidth - Len(st.configs[c].Name)) \o <<" ", "=", " ">>
    \o ValueString(st.cells, st.configs[c].Value)
    \o <<" ", "#", " ">> \o st.configs[c].Usage \o <<"\n">>

\* The Print method of ConfigSet: what it writes to standard output.
PrintText(st, visited) == Concat([i \in DOMAIN visited |-> PrintLine(st, visited[i])])

PrintOut(st, f, order) == PrintText(st, PkgVisitAll(st, order))

\* bufio.ScanLines: the lines of the data without their "\n" and without a
\* "\r" before it; text after the last "\n" is a line when it is not empty.
DropCR(line) ==
  IF line # <<>> /\ line[Len(line)] = "\r" THEN Take(line, Len(line) - 1) ELSE line

RECURSIVE ScanLines(_)
ScanLines(data) ==
  IF data = <<>> THEN <<>>
  ELSE LET i == IndexByte(data, "\n")
       IN  IF i = -1 THEN <<DropCR(data)>>
           ELSE <<DropCR(Take(data, i))>> \o ScanLines(Drop(data, i + 1))

\* The body of Load's loop for one line: cut at the first '#', split at
\* every '=', and with exactly two pieces call Set (its error is printed).
\* line[:ci] when ci := strings.Index(line, "#") is not -1.
CutComment(line) ==
  IF IndexByte(line, "#") > -1 THEN Take(line, IndexByte(line, "#")) ELSE line

\* Load with strings.SplitN(line, "=", 2): cut at the first '=' only.
LoadPairFirstCut(st, f, kv) ==
  IF Len(kv) >= 2
    THEN Set(st, f, TrimSpace(kv[1]),
             TrimQuotes(TrimSpace(Concat([i \in 1..(2 * Len(kv) - 3) |->
                                            IF i % 2 = 1 THEN kv[(i + 3) \div 2] ELSE <<"=">>])))).st
    ELSE st

LoadPair(st, f, kv) ==
  IF Len(kv) = 2
    THEN Set(st, f, TrimSpace(kv[1]), TrimQuotes(TrimSpace(kv[2]))).st
    ELSE st

LoadLine(st, f, line) == LoadPair(st, f, Split(CutComment(line), "="))

RECURSIVE LoadLines(_, _, _)
LoadLines(st, f, lines) ==
  IF lines = <<>> THEN st ELSE LoadLines(LoadLine(st, f, lines[1]), f, Tail(lines))

\* A Load that reads the file whether or not os.Open gave an error.
LoadUnopened(st, files, f, opened) ==
  IF st.sets[f].filename = "" \/ st.sets[f].filename \notin DOMAIN files THEN st
  ELSE LoadLines(st, f, ScanLines(files[st.sets[f].filename]))

\* (*ConfigSet).Load(): nothing without a file name or when os.Open fails
\* (the file does not exist, or cannot be read).
Load(st, files, f, opened) ==
  IF st.sets[f].filename = "" \/ st.sets[f].filename \notin DOMAIN files \/ ~opened THEN st
  ELSE LoadLines(st, f, ScanLines(files[st.sets[f].filename]))


(***************************************************************************)
(* The command line.  The package documents config.Parse(), Args() and a   *)
(* command line syntax (package comment, and the comment on Value) and has *)
(* no code for them: no function reads os.Args, ConfigSet has no field for *)
(* the arguments, and no Value has the IsBoolConfig method.  ParseArgs is  *)
(* the parser of that documentation, run on the registry of the code.      *)
(***************************************************************************)

\* The method set of the Value types is Set, Get and String: none of them
\* has an IsBoolConfig method, boolValue included.
IsBoolConfig(value) == FALSE

\* -name is -name=true for a config whose Value has IsBoolConfig.
IsBoolName(st, f, name) ==
  name \in DOMAIN st.sets[f].formal /\ IsBoolConfig(st.configs[st.sets[f].formal[name]].Value)

\* What one argument leaves: the state Set left, the arguments after it,
\* whether a config was seen, and Set's error.
Applied(r, rest) == [st |-> r.st, args |-> rest, seen |-> r.err = "nil", err |-> r.err]

\* -config, -config=x, -config x (the last for non-boolean configs only).
setConfig(st, f, rest, name, hasValue, value) ==
  IF hasValue THEN Applied(Set(st, f, name, value), rest)
  ELSE IF IsBoolName(st, f, name) THEN Applied(Set(st, f, name, <<"t", "r", "u", "e">>), rest)
  ELSE IF rest = <<>> THEN [st |-> st, args |-> rest, seen |-> FALSE, err |-> "needs an argument"]
  ELSE Applied(Set(st, f, name, rest[1]), Tail(rest))

\* The token without its minus signs: name, or name=value.
configToken(st, f, rest, name) ==
  IF IndexByte(name, "=") > -1
    THEN setConfig(st, f, rest, Take(name, IndexByte(name, "=")), TRUE,
                   Drop(name, IndexByte(name, "=") + 1))
  ELSE setConfig(st, f, rest, name, FALSE, <<>>)

\* One step of the parser.  Parsing stops just before the first non-config
\* argument ("-" is one) or after the terminator "--"; one or two minus
\* signs are equivalent.
parseOne(st, f, args) ==
  IF args = <<>> THEN [st |-> st, args |-> args, seen |-> FALSE, err |-> "nil"]
  ELSE IF Len(args[1]) < 2 \/ args[1][1] # "-"
    THEN [st |-> st, args |-> args, seen |-> FALSE, err |-> "nil"]
  ELSE IF args[1] = <<"-", "-">>
    THEN [st |-> st, args |-> Tail(args), seen |-> FALSE, err |-> "nil"]
  ELSE configToken(st, f, Tail(args), Drop(args[1], IF args[1][2] = "-" THEN 2 ELSE 1))

\* Parse: parseOne until it sees no config; args is then Args().
RECURSIVE ParseArgs(_, _, _)
ParseNext(f, r) == IF r.seen THEN ParseArgs(r.st, f, r.args) ELSE r

ParseArgs(st, f, args) == ParseNext(f, parseOne(st, f, args))


(***************************************************************************)
(* The program: a caller that defines configs, sets them, writes to its    *)
(* variables, saves and loads, and an editor of the config files.          *)
(***************************************************************************)

VARIABLES
  sets,     \* the ConfigSet structs; sets[1] is Configuration
  configs,  \* the Config structs
  cells,    \* the storage cells
  held,     \* per Config: the pointer and default its definer was given
  files,    \* the file system: path -> content
  result    \* the last call: its name, what it returned, what it put out

vars == <<sets, configs, cells, held, files, result>>

St == [sets |-> sets, configs |-> configs, cells |-> cells, held |-> held]

Commit(st) ==
  /\ sets' = st.sets
  /\ configs' = st.configs
  /\ cells' = st.cells
  /\ held' = st.held

\* arg is the ConfigSet the method was called on, for a definer the name
\* after it, and for Set the name and the text.
Call(op, arg, ret, out) == [op |-> op, arg |-> arg, ret |-> ret, out |-> out]

\* The state and the result after a call that came back with r.
Return(op, arg, r, out) == Commit(r.st) /\ result' = Call(op, arg, r.ret, out)

ReturnErr(op, arg, r, out) == Commit(r.st) /\ result' = Call(op, arg, r.err, out)

\* The notice Set prints when it adds a config: "Added config (string) ...".
Added == <<"Added config">>

\* Bounds of the model: the ConfigSets made with NewConfigSet beside
\* Configuration, and the Config structs on the heap.
MaxSets == 2

MaxConfigs == 4

\* Inputs of the model.
Names == { <<"a">>, <<"B">> }

Usages == { <<"u">> }

Paths == { "foo.conf" }

Defaults ==
  { BoolOf(TRUE), NumOf("int", 7), NumOf("int64", -7), NumOf("uint", 7), NumOf("uint64", 7),
    FloatOf("fin", FALSE, 314, -2), StrOf(<<"x">>), DurOf(FALSE, 5, 0) }

\* Texts given to Set: the empty text (no typed value parses it), a numeral
\* (not a duration) and a duration (not a number).
SetTexts == { <<>>, <<"1">>, <<"2", "m">> }

Init ==
  /\ sets = <<NewSet("")>>
  /\ configs = <<>>
  /\ cells = <<>>
  /\ held = <<>>
  /\ files = EmptyMap
  /\ result = Call("init", <<>>, "ok", <<>>)

\* f := NewConfigSet(filename)
DoNewConfigSet(filename) ==
  /\ Len(sets) < MaxSets
  /\ sets' = Append(sets, NewSet(filename))
  /\ result' = Call("NewConfigSet", <<Len(sets) + 1>>, "ok", <<>>)
  /\ UNCHANGED <<configs, cells, held, files>>

\* f.Init(filename); SetFile(filename) is the same on Configuration.
DoInit(f, filename) ==
  /\ sets' = [sets EXCEPT ![f].filename = filename]
  /\ result' = Call("Init", <<f>>, "ok", <<>>)
  /\ UNCHANGED <<configs, cells, held, files>>

\* f.BoolVar(p, name, value, usage) ... f.DurationVar: p is a variable of
\* the caller of value's type, one already bound or another one.
DoXxxVar(f, p, name, value, usage) ==
  /\ Len(configs) < MaxConfigs
  /\ p <= Len(cells) => cells[p].kind = value.kind
  /\ Return("XxxVar", <<f, name>>, XxxVar(St, f, p, name, value, usage), <<>>)
  /\ UNCHANGED files

\* p := f.Bool(name, value, usage) ... f.Duration
DoXxx(f, name, value, usage) ==
  /\ Len(configs) < MaxConfigs
  /\ Return("Xxx", <<f, name>>, Xxx(St, f, name, value, usage), <<>>)
  /\ UNCHANGED files

\* err := f.Set(name, value)
DoSet(f, name, value) ==
  /\ name \in DOMAIN sets[f].formal \/ Len(configs) < MaxConfigs
  /\ ReturnErr("Set", <<f, name, value>>, Set(St, f, name, value),
               IF name \in DOMAIN sets[f].formal THEN <<>> ELSE Added)
  /\ UNCHANGED files

\* *p = v, written by the caller to a variable it holds.
DoWrite(p, v) ==
  /\ \E c \in DOMAIN held : held[c].p = p
  /\ cells[p].kind = v.kind
  /\ cells' = [cells EXCEPT ![p] = v]
  /\ result' = Call("write", <<>>, "ok", <<>>)
  /\ UNCHANGED <<sets, configs, held, files>>

\* f.VisitAll(fn), with fn recording what it is called with.
DoVisitAll(f) ==
  /\ \E order \in Orders(sets[f].formal) :
       result' = Call("VisitAll", <<f>>, "ok", VisitAll(St, f, order))
  /\ UNCHANGED <<sets, configs, cells, held, files>>

\* f.Visit(fn)
DoVisit(f) ==
  /\ \E order \in Orders(sets[f].actual) :
       result' = Call("Visit", <<f>>, "ok", Visit(St, f, order))
  /\ UNCHANGED <<sets, configs, cells, held, files>>

\* The Print method of f
DoPrintOut(f) ==
  /\ \E order \in Orders(sets[Configuration].formal) :
       result' = Call("PrintOut", <<f>>, "ok", PrintOut(St, f, order))
  /\ UNCHANGED <<sets, configs, cells, held, files>>

\* f.Save()
DoSave(f) ==
  /\ \E created \in BOOLEAN, order \in Orders(sets[Configuration].formal) :
       /\ files' = Save(St, files, f, created, order)
       /\ result' = Call("Save", <<f>>,
                         IF sets[f].filename = "" THEN "nofile"
                         ELSE IF created THEN "ok" ELSE "ioerror", <<>>)
  /\ UNCHANGED <<sets, configs, cells, held>>

\* f.Load(), when the configs it adds fit the heap of the model.
Loaded(f, st, ret) ==
  /\ Len(st.configs) <= MaxConfigs
  /\ Commit(st)
  /\ result' = Call("Load", <<f>>, ret, <<>>)

DoLoad(f) ==
  /\ \E opened \in BOOLEAN :
       Loaded(f, Load(St, files, f, opened),
              IF sets[f].filename = "" THEN "nofile"
              ELSE IF opened /\ sets[f].filename \in DOMAIN files THEN "ok"
              ELSE "ioerror")
  /\ UNCHANGED files

\* An editor (or an earlier run) leaves a file with this content.
DoEdit(path, content) ==
  /\ files' = WriteFile(files, path, content)
  /\ result' = Call("edit", <<>>, "ok", <<>>)
  /\ UNCHANGED <<sets, configs, cells, held>>

(***************************************************************************)
(* Spec: the package-level functions, all on Configuration, with every     *)
(* kind of value.                                                          *)
(***************************************************************************)

Next ==
  \/ \E p \in 1..(Len(cells) + 1), name \in Names, value \in Defaults, usage \in Usages :
        DoXxxVar(Configuration, p, name, value, usage)
  \/ \E name \in Names, value \in Defaults, usage \in Usages :
        DoXxx(Configuration, name, value, usage)
  \/ \E name \in Names, value \in SetTexts : DoSet(Configuration, name, value)
  \/ \E p \in DOMAIN cells, v \in Defaults : DoWrite(p, v)
  \/ DoVisitAll(Configuration)
  \/ DoVisit(Configuration)
  \/ DoPrintOut(Configuration)

Spec == Init /\ [][Next]_vars

(***************************************************************************)
(* Properties of Spec                                                      *)
(***************************************************************************)

\* The state after a step, as the operators take it.
StNext == [sets |-> sets', configs |-> configs', cells |-> cells', held |-> held']

\* What was there before a step is there after it: the Config structs, the
\* keys of f's formal with the structs they map to, and every other set.
Kept(f) ==
  /\ SubSeq(configs', 1, Len(configs)) = configs
  /\ \A n \in DOMAIN sets[f].formal :
       n \in DOMAIN sets'[f].formal /\ sets'[f].formal[n] = sets[f].formal[n]
  /\ \A g \in DOMAIN sets : g # f => sets'[g] = sets[g]

\* C1: a definer called with a name that is a key of formal panics and
\* leaves formal, actual and every Config struct (Value, Usage, DefValue) as
\* they were; called with a name that is no key it returns normally and adds
\* exactly that name to formal.
C1_DefineOnce ==
  [][\A f \in DOMAIN sets, name \in Names :
       (result'.op \in {"XxxVar", "Xxx"} /\ result'.arg = <<f, name>>) =>
         IF name \in DOMAIN sets[f].formal
           THEN /\ result'.ret = "panic"
                /\ sets' = sets
                /\ configs' = configs
           ELSE /\ result'.ret = "ok"
                /\ DOMAIN sets'[f].formal = (DOMAIN sets[f].formal) \cup {name}
                /\ configs'[sets'[f].formal[name]].Name = name
                /\ sets'[f].actual = sets[f].actual
                /\ Kept(f)]_vars

\* A definer was called with a name that was defined, and panicked.
C1_Witness == result.op \in {"XxxVar", "Xxx"} /\ result.ret = "panic"

\* C2: a Set of a defined name with a text its type does not parse returns
\* an error and leaves actual and the storage cell as they were.
C2_FailedSetKeeps ==
  [][\A f \in DOMAIN sets, name \in Names, text \in SetTexts :
       (result'.op = "Set" /\ result'.arg = <<f, name, text>>
          /\ name \in DOMAIN sets[f].formal
          /\ Parse(configs[sets[f].formal[name]].Value.kind, text).err # "nil")
         => /\ result'.ret # "nil"
            /\ sets' = sets
            /\ cells' = cells]_vars

\* C3: a Set of a name that is no key of formal returns nil; afterwards
\* Lookup(name) is a string config whose value and DefValue are the text,
\* and the configs that were there are as they were.
C3_SetAdds ==
  [][\A f \in DOMAIN sets, name \in Names, text \in SetTexts :
       (result'.op = "Set" /\ result'.arg = <<f, name, text>>
          /\ name \notin DOMAIN sets[f].formal)
         => /\ result'.ret = "nil"
            /\ Lookup(StNext, f, name) # 0
            /\ configs'[Lookup(StNext, f, name)].Value.kind = "string"
            /\ ValueGet(cells', configs'[Lookup(StNext, f, name)].Value) = StrOf(text)
            /\ configs'[Lookup(StNext, f, name)].DefValue = text
            /\ DOMAIN sets'[f].formal = (DOMAIN sets[f].formal) \cup {name}
            /\ SubSeq(cells', 1, Len(cells)) = cells
            /\ Kept(f)]_vars

\* Set was called with a name that was not defined, beside another config.
C3_Witness ==
  /\ result.op = "Set"
  /\ result.out = Added
  /\ Cardinality(DOMAIN sets[Configuration].formal) = 2

\* C4: after a Set that returned nil the name is in actual, Visit visits it
\* and NConfig counts it, whether the name was defined before or not.
C4_SetRecords ==
  [][\A f \in DOMAIN sets, name \in Names, text \in SetTexts :
       (result'.op = "Set" /\ result'.arg = <<f, name, text>> /\ result'.ret = "nil")
         => /\ name \in DOMAIN sets'[f].actual
            /\ NConfig(StNext, f) >= 1
            /\ \A order \in Orders(sets'[f].actual) :
                 \E i \in DOMAIN Visit(StNext, f, order) :
                   configs'[Visit(StNext, f, order)[i]].Name = name]_vars

\* The names of the Configs a traversal visited, in the order of the visits.
VisitedNames(out) == [i \in DOMAIN out |-> IF out[i] = 0 THEN <<>> ELSE configs[out[i]].Name]

\* out visits each Config of the map m once and no other, by increasing name.
VisitsInOrder(out, m) ==
  /\ Len(out) = Cardinality(DOMAIN m)
  /\ \A n \in DOMAIN m : \E i \in DOMAIN out : out[i] = m[n]
  /\ \A i \in DOMAIN out : \E n \in DOMAIN m : out[i] = m[n]
  /\ \A i, j \in DOMAIN out : i < j => StrLess(VisitedNames(out)[i], VisitedNames(out)[j])

\* C9: VisitAll calls fn once for each Config of formal and for no other,
\* in strictly increasing order of name; Visit does so for actual.
C9_Visits ==
  /\ result.op = "VisitAll" => VisitsInOrder(result.out, sets[result.arg[1]].formal)
  /\ result.op = "Visit" => VisitsInOrder(result.out, sets[result.arg[1]].actual)

\* A traversal has visited two configs.
C9_Witness == result.op \in {"VisitAll", "Visit"} /\ Len(result.out) = 2

\* The text the Print method writes when every value is read from the
\* variable the caller holds.
HeldLine(c) ==
  configs[c].Name \o Spaces(PadWidth - Len(configs[c].Name)) \o <<" ", "=", " ">>
    \o Render(cells[held[c].p]) \o <<" ", "#", " ">> \o configs[c].Usage \o <<"\n">>

HeldSorted(m) ==
  { o \in Orders(m) : \A i, j \in DOMAIN o : i < j => StrLess(o[i], o[j]) }

HeldText(m) ==
  { Concat([i \in DOMAIN o |-> HeldLine(m[o[i]])]) : o \in HeldSorted(m) }

\* The same for the lines of Save: name=value # usage.
HeldSaveLine(c) ==
  configs[c].Name \o <<"=">> \o Render(cells[held[c].p]) \o <<" ", "#", " ">>
    \o configs[c].Usage \o <<"\n">>

HeldSaveText(m) ==
  { Concat([i \in DOMAIN o |-> HeldSaveLine(m[o[i]])]) : o \in HeldSorted(m) }

\* Get and String read the variable p the definer was given, the Print
\* method and the visitor of Save (in any state it is called in) render it,
\* and DefValue is the text of the default.
C10_State ==
  /\ \A c \in DOMAIN configs :
       /\ ValueGet(cells, configs[c].Value) = cells[held[c].p]
       /\ configs[c].Value.cell = held[c].p
       /\ ValueString(cells, configs[c].Value) = Render(cells[held[c].p])
       /\ configs[c].DefValue = Render(held[c].value)
  /\ result.op = "PrintOut" => result.out \in HeldText(sets[Configuration].formal)
  /\ \A order \in Orders(sets[Configuration].formal) :
       SaveText(St, PkgVisitAll(St, order)) \in HeldSaveText(sets[Configuration].formal)

\* C10: the value of a config is the content of the variable p its definer
\* was given, never a copy: Get, String and the Print method read *p and
\* DefValue is the text of the default; when a definer has returned *p is
\* the default, and when Set has returned nil *p is the parsed value.
C10_Live ==
  /\ C10_State
  /\ (result.op \in {"XxxVar", "Xxx"} /\ result.ret = "ok")
       => cells[held[Len(held)].p] = held[Len(held)].value
  /\ (result.op = "Set" /\ result.ret = "nil" /\ result.out = <<>>)
       => cells[held[sets[result.arg[1]].formal[result.arg[2]]].p]
            = Parse(configs[sets[result.arg[1]].formal[result.arg[2]]].Value.kind,
                    result.arg[3]).v

\* The Print method has rendered a value that is not the default.
C10_Witness ==
  /\ result.op = "PrintOut"
  /\ \E c \in DOMAIN configs : Render(cells[held[c].p]) # configs[c].DefValue

(***************************************************************************)
(* SpecLoad: config files left by an editor and loaded with the package's  *)
(* Load, among definers and Sets.                                          *)
(***************************************************************************)

LoadNames == { <<"a">>, <<"p", "i", "e">> }

LoadDefaults == { FloatOf("fin", FALSE, 3, 0), StrOf(<<"x">>) }

\* Texts given to Set: a numeral, and the empty text (no float64).
LoadTexts == { <<"1">>, <<>> }

\* The file of the README's example: a comment line, a blank line and
\* "pie = 3.14  # also a comment".
ReadmeFile ==
  <<"#", " ", "c", "o", "m", "m", "e", "n", "t", "\n", "\n", "p", "i", "e",
    " ", "=", " ", "3", ".", "1", "4", " ", " ", "#", " ", "a", "l", "s", "o",
    " ", "a", " ", "c", "o", "m", "m", "e", "n", "t", "\n">>

\* A quoted value, a line without '=' and a line with two.
OddFile ==
  <<"a", " ", "=", " ", "\"", "q", "\"", "\n", "p", "i", "e", "\n", "a", "=",
    "b", "=", "c", "\n">>

\* A text that is no float64, lines ending in "\r\n", no "\n" at the end.
CrLfFile ==
  <<"p", "i", "e", " ", "=", " ", "z", "z", "\r", "\n", "a", "=", "1">>

Contents == { ReadmeFile, OddFile, CrLfFile }

NextLoad ==
  \/ \E filename \in Paths : DoInit(Configuration, filename)
  \/ \E name \in LoadNames, value \in LoadDefaults, usage \in Usages :
        DoXxx(Configuration, name, value, usage)
  \/ \E name \in LoadNames, value \in LoadTexts : DoSet(Configuration, name, value)
  \/ \E path \in Paths, content \in Contents : DoEdit(path, content)
  \/ DoLoad(Configuration)

SpecLoad == Init /\ [][NextLoad]_vars

(***************************************************************************)
(* Properties of SpecLoad                                                  *)
(***************************************************************************)

\* C5: in every state reached by definers, Sets (that succeed, fail or add
\* a config) and Loads, every name of actual is a key of formal, and actual
\* maps it to the same Config as formal.
C5_ActualInFormal ==
  \A f \in DOMAIN sets :
    \A n \in DOMAIN sets[f].actual :
      n \in DOMAIN sets[f].formal /\ sets[f].actual[n] = sets[f].formal[n]

\* Load has set a config, added another, and a Set of it had failed or not
\* happened: formal has a key that actual has not.
C5_Witness ==
  /\ result.op = "Load"
  /\ result.ret = "ok"
  /\ sets[result.arg[1]].actual # EmptyMap
  /\ DOMAIN sets[result.arg[1]].actual # DOMAIN sets[result.arg[1]].formal

\* The line up to its first '#'.
Uncommented(line) ==
  IF \E i \in DOMAIN line : line[i] = "#"
    THEN SubSeq(line, 1, (CHOOSE i \in DOMAIN line :
                            line[i] = "#" /\ \A j \in 1..(i - 1) : line[j] # "#") - 1)
    ELSE line

EqualSigns(line) == { i \in DOMAIN line : line[i] = "=" }

\* The text without the '"' characters it begins and ends with.
Unquoted(text) ==
  IF \A i \in DOMAIN text : text[i] = "\""
    THEN <<>>
    ELSE SubSeq(text,
                CHOOSE i \in DOMAIN text : text[i] # "\"" /\ \A j \in 1..(i - 1) : text[j] = "\"",
                CHOOSE i \in DOMAIN text :
                  text[i] # "\"" /\ \A j \in (i + 1)..Len(text) : text[j] = "\"")

\* Key and value of a line with one '=': the texts left and right of it,
\* without the white space around them.
KeyOf(line) == TrimSpace(SubSeq(line, 1, (CHOOSE i \in EqualSigns(line) : TRUE) - 1))

ValueOf(line) ==
  TrimSpace(SubSeq(line, (CHOOSE i \in EqualSigns(line) : TRUE) + 1, Len(line)))

\* Set(key, value) for each line that has exactly one '=' before its first
\* '#', in the order of the lines; the value as it stands, or unquoted.
RECURSIVE SetEach(_, _, _, _)
SetEach(st, f, lines, unquote) ==
  IF lines = <<>> THEN st
  ELSE IF Cardinality(EqualSigns(Uncommented(lines[1]))) # 1
    THEN SetEach(st, f, Tail(lines), unquote)
  ELSE SetEach(Set(st, f, KeyOf(Uncommented(lines[1])),
                   IF unquote THEN Unquoted(ValueOf(Uncommented(lines[1])))
                   ELSE ValueOf(Uncommented(lines[1]))).st,
               f, Tail(lines), unquote)

\* A step that is a Load of f: what it leaves is what SetEach leaves when
\* the file was read, and nothing changed when it was not.
LoadedAs(f, unquote) ==
  (result'.op = "Load" /\ result'.arg = <<f>>) =>
     IF result'.ret = "ok"
       THEN StNext = SetEach(St, f, ScanLines(files[sets[f].filename]), unquote)
       ELSE StNext = St

\* C8 as stated: Load is Set(key, value) in file order for the lines that
\* have exactly one '=' before their first '#', key and value being the
\* texts left and right of the '=' without the white space around them;
\* every other line changes nothing.
C8_LoadAsStated == [][\A f \in DOMAIN sets : LoadedAs(f, FALSE)]_vars

\* C8, amended: the same, the value being the text right of the '=' without
\* the white space around it and then without every '"' it begins or ends
\* with.
C8_LoadUnquoted == [][\A f \in DOMAIN sets : LoadedAs(f, TRUE)]_vars

\* Load has read the README's file into a float64 config pie: it is 3.14.
C8_Witness ==
  /\ result.op = "Load"
  /\ result.ret = "ok"
  /\ files[sets[result.arg[1]].filename] = ReadmeFile
  /\ <<"p", "i", "e">> \in DOMAIN sets[result.arg[1]].actual
  /\ \E c \in DOMAIN configs :
       /\ c = sets[result.arg[1]].formal[<<"p", "i", "e">>]
       /\ configs[c].Value.kind = "float64"
       /\ ValueGet(cells, configs[c].Value) = FloatOf("fin", FALSE, 314, -2)

(***************************************************************************)
(* SpecRoundTrip: configs defined in Configuration, and then set, are      *)
(* saved; a second ConfigSet of the same file then defines the same        *)
(* configs and loads.                                                      *)
(***************************************************************************)

RtNames == { <<"a">>, <<"k", "=">> }

\* Texts given to Set: a numeral, a duration, a text with a '#' and a text
\* in quotes.
RtTexts == { <<"1">>, <<"2", "m">>, <<"x", "#", "y">>, <<"\"", "q", "\"">> }

\* The ConfigSet made with NewConfigSet.
Second == 2

\* Nothing is saved yet.
Unsaved == files = EmptyMap

\* The caller has named the file of Configuration and made the second
\* ConfigSet: it does so before anything else.
Ready == sets[Configuration].filename # "" /\ Second \in DOMAIN sets

KindOf(f, name) == configs[sets[f].formal[name]].Value.kind

NextRoundTrip ==
  \/ sets[Configuration].filename = "" /\ \E filename \in Paths : DoInit(Configuration, filename)
  \/ ~Ready /\ \E filename \in Paths : DoNewConfigSet(filename)
  \/ Ready /\ Unsaved /\ \E name \in RtNames, value \in Defaults, usage \in Usages :
                           DoXxx(Configuration, name, value, usage)
  \/ Ready /\ Unsaved /\ \E name \in DOMAIN sets[Configuration].formal, value \in RtTexts :
                           DoSet(Configuration, name, value)
  \/ Ready /\ Unsaved /\ \E f \in DOMAIN sets : DoSave(f)
  \/ ~Unsaved /\ \E name \in DOMAIN sets[Configuration].formal, value \in Defaults,
                     usage \in Usages :
                   value.kind = KindOf(Configuration, name) /\ DoXxx(Second, name, value, usage)
  \/ ~Unsaved /\ DoLoad(Second)

SpecRoundTrip == Init /\ [][NextRoundTrip]_vars

(***************************************************************************)
(* Properties of SpecRoundTrip                                             *)
(***************************************************************************)

\* The lines name=value # usage of the Configs of the map m, by increasing
\* name.
OwnLine(c) ==
  configs[c].Name \o <<"=">> \o ValueString(cells, configs[c].Value) \o <<" ", "#", " ">>
    \o configs[c].Usage \o <<"\n">>

OwnText(m) == { Concat([i \in DOMAIN o |-> OwnLine(m[o[i]])]) : o \in HeldSorted(m) }

\* C6: f.Save() writes one line name=value # usage for each Config of f's
\* own formal, set or not, and no other line, by increasing name.
C6_SaveOwn ==
  (result.op = "Save" /\ result.ret = "ok")
    => files[sets[result.arg[1]].filename] \in OwnText(sets[result.arg[1]].formal)

\* The value of the config of f with this name.
Current(f, name) == ValueGet(cells, configs[sets[f].formal[name]].Value)

\* The second ConfigSet has the configs of Configuration, by name and type,
\* and none of them is set.
SameConfigs ==
  /\ Second \in DOMAIN sets
  /\ DOMAIN sets[Second].formal = DOMAIN sets[Configuration].formal
  /\ \A n \in DOMAIN sets[Configuration].formal : KindOf(Second, n) = KindOf(Configuration, n)
  /\ sets[Second].actual = EmptyMap

\* A step that loads what Configuration saved into the second ConfigSet.
RoundTrip ==
  /\ SameConfigs
  /\ result'.op = "Load"
  /\ result'.arg = <<Second>>
  /\ result'.ret = "ok"

Carried(text) ==
  /\ \A i \in DOMAIN text : text[i] \notin {"#", "=", "\n"}
  /\ TrimSpace(text) = text
  /\ Unquoted(text) = text

\* Names that are keys of a line as they are, and usages that end no line.
PlainNames ==
  \A c \in DOMAIN configs :
    /\ \A i \in DOMAIN configs[c].Name : configs[c].Name[i] \notin {"#", "=", "\n"}
    /\ TrimSpace(configs[c].Name) = configs[c].Name
    /\ \A i \in DOMAIN configs[c].Usage : configs[c].Usage[i] # "\n"

Parsed(f, arguments, r) ==
  /\ Len(r.st.configs) <= MaxConfigs
  /\ Commit(r.st)
  /\ result' = Call("Parse", <<f, arguments>>, r.err, r.args)
  /\ UNCHANGED files

DoParse(f, arguments) == Parsed(f, arguments, ParseArgs(St, f, arguments))

ArgNames == { <<"b">>, <<"n">> }

ArgDefaults == { BoolOf(FALSE), NumOf("int", 0), StrOf(<<>>) }

Minus(name) == <<"-">> \o name

\* Command lines: a config alone, a config and a token after it, and the
\* forms with "=", two minus signs and the terminator.
ArgLists ==
  UNION { { <<Minus(name)>>,
            <<Minus(name), <<"t", "r", "u", "e">>>>,
            <<Minus(name), <<"5">>, <<"x">>>> } : name \in ArgNames }
    \cup { << <<"-", "-", "b", "=", "0">>, <<"x">> >>,
           << <<"-", "n", "=", "5">>, <<"-", "-">>, <<"-", "b">> >> }

NextArgs ==
  \/ \E name \in ArgNames, value \in ArgDefaults, usage \in Usages :
        DoXxx(Configuration, name, value, usage)
  \/ \E arguments \in ArgLists : DoParse(Configuration, arguments)

SpecArgs == Init /\ [][NextArgs]_vars

(***************************************************************************)
(* Properties of SpecArgs                                                  *)
(***************************************************************************)

\* The command line began with -name, without "=", for a defined config.
Began(name) ==
  /\ result.op = "Parse"
  /\ result.arg[2][1] = Minus(name)
  /\ name \in DOMAIN sets[result.arg[1]].formal

TypedNames == { <<"a">> }

\* Values of every type: zero, negative, the largest numerals of the model,
\* floats printed with %f and with %e, the infinities and NaN, durations
\* with each unit and with fractions.
TypedValues ==
  { BoolOf(TRUE), BoolOf(FALSE),
    NumOf("int", 0), NumOf("int", -7), NumOf("int", 123456789),
    NumOf("int64", -1), NumOf("int64", 100),
    NumOf("uint", 0), NumOf("uint", 42),
    NumOf("uint64", 7), NumOf("uint64", 999999999),
    FloatOf("fin", FALSE, 0, 0), FloatOf("fin", TRUE, 0, 0), FloatOf("fin", FALSE, 314, -2),
    FloatOf("fin", FALSE, 1, 21), FloatOf("fin", TRUE, 15, -8), FloatOf("fin", FALSE, 1, 5),
    FloatOf("fin", FALSE, 1, 6), FloatOf("fin", FALSE, 1, -4), FloatOf("fin", FALSE, 1, -5),
    FloatOf("fin", FALSE, 123456789, 0),
    FloatOf("inf", FALSE, 0, 0), FloatOf("inf", TRUE, 0, 0), FloatOf("nan", FALSE, 0, 0),
    DurOf(FALSE, 0, 0), DurOf(FALSE, 5, 0), DurOf(FALSE, 1, 500000000), DurOf(FALSE, 3600, 0),
    DurOf(FALSE, 3600, 1), DurOf(TRUE, 125, 0), DurOf(FALSE, 0, 1), DurOf(FALSE, 0, 1500),
    DurOf(FALSE, 0, 1000000), DurOf(TRUE, 0, 999000000), DurOf(FALSE, 5400, 0),
    StrOf(<<"x">>) }

\* err := config.Value.Set(s).  arg keeps the text and what the variable
\* held before the call; out is config.Value.String() after it.
ValueSetDone(c, s, r) ==
  /\ cells' = r.cells
  /\ result' = Call("Value.Set", <<c, s, ValueGet(cells, configs[c].Value)>>, r.err,
                    ValueString(r.cells, configs[c].Value))
  /\ UNCHANGED <<sets, configs, held, files>>

DoValueSet(c, s) == ValueSetDone(c, s, ValueSet(cells, configs[c].Value, s))

\* config.Value.Set(config.Value.String())
DoSetString(c) == DoValueSet(c, ValueString(cells, configs[c].Value))

NextTyped ==
  \/ \E name \in TypedNames, value \in TypedValues, usage \in Usages :
        DoXxx(Configuration, name, value, usage)
  \/ \E c \in DOMAIN configs, s \in SetTexts : DoValueSet(c, s)
  \/ \E c \in DOMAIN configs : DoSetString(c)

SpecTyped == Init /\ [][NextTyped]_vars

(***************************************************************************)
(* Properties of SpecTyped                                                 *)
(***************************************************************************)

\* v == w of Go: a float64 NaN is equal to no float64, and the zeros of
\* either sign are equal.
GoEqual(v, w) ==
  IF v.kind = "float64" /\ w.kind = "float64"
    THEN /\ v.cls # "nan"
         /\ w.cls # "nan"
         /\ v = w \/ (v.cls = "fin" /\ w.cls = "fin" /\ v.m = 0 /\ w.m = 0)
    ELSE v = w

\* The last call was Value.Set on the text String gave for the value v the
\* variable held, of a type other than string.
SetOwnString ==
  /\ result.op = "Value.Set"
  /\ result.arg[3].kind # "string"
  /\ result.arg[2] = Render(result.arg[3])

\* C12 as stated: Set on the text String gives for v succeeds, stores a value
\* equal to v, and String returns the same text afterwards.
C12_SetString ==
  SetOwnString =>
    /\ result.ret = "nil"
    /\ GoEqual(ValueGet(cells, configs[result.arg[1]].Value), result.arg[3])
    /\ result.out = result.arg[2]

\* C12: Set on the text String gives for v succeeds and String returns the
\* same text afterwards; the value stored is equal to v, and is NaN when v
\* is the float64 NaN, which is equal to no value.
C12_SetStringNaN ==
  SetOwnString =>
    /\ result.ret = "nil"
    /\ \/ GoEqual(ValueGet(cells, configs[result.arg[1]].Value), result.arg[3])
       \/ /\ result.arg[3] = FloatOf("nan", FALSE, 0, 0)
          /\ ValueGet(cells, configs[result.arg[1]].Value) = FloatOf("nan", FALSE, 0, 0)
    /\ result.out = result.arg[2]

\* Set has been called on the text of a value that is not the zero value of
\* its type and not what a text of SetTexts parses to.
C12_Witness ==
  /\ SetOwnString
  /\ result.ret = "nil"
  /\ result.arg[3] \in { FloatOf("fin", TRUE, 15, -8), DurOf(FALSE, 3600, 1) }

(***************************************************************************)
(* SpecQuotes: Configuration loads a file of one line, a = value, with     *)
(* double quotes in and around the value.                                  *)
(***************************************************************************)

Quote == "\""

\* Values in a file: in one layer of quotes and in two, with a quote at one
\* end only, with a quote inside, nothing but quotes, and no quote at all.
QuotedTexts ==
  { <<Quote, "q", Quote>>, <<Quote, Quote, "q", Quote, Quote>>, <<Quote, "q">>,
    <<"q", Quote>>, <<Quote, "q", Quote, "r", Quote>>, <<"q", Quote, "r">>,
    <<Quote, Quote>>, <<Quote>>, <<"q">> }

QuoteName == <<"a">>

\* The file with the line a = text.
QuoteFile(text) == QuoteName \o <<" ", "=", " ">> \o text \o <<"\n">>

QuoteDefaults == { StrOf(<<>>), StrOf(<<"x">>) }

NextQuotes ==
  \/ \E filename \in Paths : DoInit(Configuration, filename)
  \/ \E value \in QuoteDefaults, usage \in Usages : DoXxx(Configuration, QuoteName, value, usage)
  \/ \E path \in Paths, text \in QuotedTexts : DoEdit(path, QuoteFile(text))
  \/ DoLoad(Configuration)

SpecQuotes == Init /\ [][NextQuotes]_vars

(***************************************************************************)
(* Properties of SpecQuotes                                                *)
(***************************************************************************)

\* Load has just read the file with the line a = text.
LoadedText(text) ==
  /\ result.op = "Load"
  /\ result.ret = "ok"
  /\ files[sets[result.arg[1]].filename] = QuoteFile(text)

\* The text without one layer of quotes around it, when it has one.
OneLayerOff(text) ==
  IF Len(text) >= 2 /\ text[1] = Quote /\ text[Len(text)] = Quote
    THEN SubSeq(text, 2, Len(text) - 1)
    ELSE text

\* C13 as stated: the value Load passes to Set is the text without one
\* layer of surrounding quotes: one '"' is taken from each end of a text
\* wrapped in quotes, further quotes stay, and a text that is not wrapped is
\* passed as it is.
C13_OneLayer ==
  \A text \in QuotedTexts :
    LoadedText(text) => Current(result.arg[1], QuoteName) = StrOf(OneLayerOff(text))

\* C13, amended: the value Load passes to Set is the text without every '"'
\* at its beginning and at its end; quotes inside it stay, and a text that
\* neither begins nor ends with '"' is passed as it is.
C13_EveryLayer ==
  \A text \in QuotedTexts :
    LoadedText(text) => Current(result.arg[1], QuoteName) = StrOf(Unquoted(text))

\* Load has read a value in two layers of quotes: the config holds it
\* without any.
C13_Witness ==
  /\ LoadedText(<<Quote, Quote, "q", Quote, Quote>>)
  /\ Current(result.arg[1], QuoteName) = StrOf(<<"q">>)

(***************************************************************************)
(* SpecNoFile: Load and Save on Configuration before and after SetFile,    *)
(* with the file there or not, and os.Open and os.Create failing or not.   *)
(***************************************************************************)

NoFileContents == { ReadmeFile, CrLfFile }

NextNoFile ==
  \/ \E filename \in Paths : DoInit(Configuration, filename)
  \/ \E name \in LoadNames, value \in LoadDefaults, usage \in Usages :
        DoXxx(Configuration, name, value, usage)
  \/ \E name \in LoadNames, value \in LoadTexts : DoSet(Configuration, name, value)
  \/ \E path \in Paths, content \in NoFileContents : DoEdit(path, content)
  \/ DoLoad(Configuration)
  \/ DoSave(Configuration)

SpecNoFile == Init /\ [][NextNoFile]_vars

(***************************************************************************)
(* Properties of SpecNoFile                                                *)
(***************************************************************************)

\* The step is a Load that found no file name or could not open the file,
\* or a Save that found no file name.
CameBackEarly ==
  \/ result'.op = "Load" /\ result'.ret \in {"nofile", "ioerror"}
  \/ result'.op = "Save" /\ result'.ret = "nofile"

\* C14: a Load without a file name, or of a file that cannot be opened,
\* returns and leaves every ConfigSet (formal, actual), every Config and
\* every variable as it was; a Save without a file name does the same and
\* writes no file.
C14_NoFileNoChange == [][CameBackEarly => StNext = St /\ files' = files]_vars

\* Load came back from a file that is there, has a line for a config, and
\* could not be opened, in a registry with a config that has been set.
C14_Witness ==
  /\ result.op = "Load"
  /\ result.ret = "ioerror"
  /\ sets[Configuration].filename \in DOMAIN files
  /\ files[sets[Configuration].filename] = ReadmeFile
  /\ DOMAIN sets[Configuration].actual # {}


====
